---- MODULE Spec2Model ----
(***************************************************************************)
(* Recording session controller of the screen recorder (src/src/App.jsx). *)
(*                                                                         *)
(* The component's React state (isSupported, isRecording, elapsedMs,      *)
(* previewURL, error) and its refs (mediaRecorderRef, chunksRef, the       *)
(* stream refs, audioCtxRef, tickRef, startTimeRef) are the variables.     *)
(* Every accepted call of startRecording is an "attempt" with its own      *)
(* local constants (displayStream, micStream, audioCtx, combined,          *)
(* recorder); the host objects they denote (tracks, audio context,         *)
(* MediaRecorder, interval, object URL) are indexed by the attempt that    *)
(* created them.  One action is one turn of the event loop: a handler or   *)
(* callback runs to completion, or startRecording runs from one await to   *)
(* the next.  Renders follow state updates before the next event, so a     *)
(* handler reads the current state, except for the unmount effect, whose   *)
(* dependency list is empty and whose closure is the first render's.       *)
(***************************************************************************)
EXTENDS Integers, Sequences, FiniteSets

\* ---- bounds of the model ------------------------------------------------
MaxAttempts == 2      \* accepted calls of startRecording in one run
DeepAttempts == 3     \* the same, in the runs driven by the controls alone
MaxSegments == 2      \* segments retained in chunksRef
MaxTicks == 2         \* interval periods followed after a startTimer, short runs
MaxOverrun == 2       \* interval periods followed past the maximum, long runs
MaxLatePeriods == 2   \* interval periods a queued callback is followed waiting

\* ---- program constants --------------------------------------------------
MAX_DURATION_MS == 3 * 60 * 1000
TICK_MS == 250
FallbackError == "Failed to start recording. Use Chrome & allow permissions."

Attempts == 1..DeepAttempts
NULL == 0
\* err.message of the exceptions the host may throw ("" = no message)
Messages == {"", "Permission denied"}
\* sizes of the Blobs the encoder hands to ondataavailable
SegmentSizes == {0, 1000, 2000}
\* ms the clock may advance in one step: half an interval period
Offsets == {125}
\* where lines 95-108 of startRecording may throw
EarlyStages == {"ctx", "mixer", "recorder"}
\* lines 70-74: the encoder formats of pickMimeType, most preferred first
Candidates == <<"video/webm;codecs=vp9,opus", "video/webm;codecs=vp8,opus", "video/webm">>
\* the formats MediaRecorder.isTypeSupported may accept
CandidateSet == {Candidates[i] : i \in 1..Len(Candidates)}
\* the mixer inputs with only the microphone connected
MixerInputsMicOnly == {"mic"}
\* lines 99-100: the sources connected to the mixer destination
MixerInputs == {"system", "mic"}

VARIABLES
    mounted,            \* the component is mounted
    isSupported, isRecording, elapsedMs, previewURL, error,   \* useState
    mediaRecorderRef, chunksRef, displayStreamRef, micStreamRef,
    mixedStreamRef, audioCtxRef, tickRef,                     \* useRef
    sinceStart,         \* Date.now() - startTimeRef.current
    intervals,          \* setInterval handles not yet cleared
    due,                \* intervals whose callback is queued and has not run
    wait,               \* per interval: ms until its next callback, 0 if cleared
    late,               \* per interval: ms its queued callback has waited to run
    horizon,            \* the run follows the clock while sinceStart is below it
    started,            \* number of accepted startRecording calls
    limit,              \* number of startRecording calls the run may accept
    pc,                 \* per attempt: where its startRecording call stands
    video, sysAudio, micTrack, mixedTrack,    \* per attempt: track readyState
    ctxState,           \* per attempt: AudioContext state
    rec,                \* per attempt: MediaRecorder state
    builds,             \* per attempt: Blobs built by its onstop
    cleanups,           \* per attempt: cleanupStreams calls made by its onstop
    artifactSize,       \* size of the Blob behind the newest preview URL
    revoked,            \* object URLs revoked
    noop,               \* "stop": this step called stopRecording on an inactive
                        \* encoder; "start": it called startRecording, which
                        \* returned at line 80
    downloaded,         \* size of the Blob this step handed to the download link
    downloadedType,     \* content type of that Blob
    supported,          \* the formats MediaRecorder.isTypeSupported accepts
    connected,          \* per attempt: sources connected to the mixer destination
    mimeType,           \* per attempt: the const mimeType of line 107
    artifactType        \* content type of the Blob behind the newest preview URL

\* line 110 left out: the segments of the earlier attempt are kept
FreshChunksKept == chunksRef
\* line 110: chunksRef.current = []
FreshChunks == <<>>

uiVars == <<mounted, isSupported, isRecording, elapsedMs, previewURL, error>>
refVars == <<mediaRecorderRef, chunksRef, displayStreamRef, micStreamRef,
             mixedStreamRef, audioCtxRef, tickRef>>
timeVars == <<sinceStart, intervals, due, wait, late>>
hostVars == <<video, sysAudio, micTrack, mixedTrack, ctxState, rec>>
histVars == <<builds, cleanups, artifactSize>>
formatVars == <<connected, mimeType, artifactType>>
vars == <<uiVars, refVars, timeVars, started, limit, horizon, pc, hostVars, histVars,
          revoked, noop, downloaded, downloadedType, supported, formatVars>>

\* a step that neither calls stopRecording nor downloads
Quiet ==
    /\ noop' = "none"
    /\ downloaded' = -1
    /\ downloadedType' = "none"
    /\ limit' = limit
    /\ horizon' = horizon
    /\ supported' = supported

\* ---- pure helpers -------------------------------------------------------
RECURSIVE Sum(_)
\* Blob(parts).size
Sum(s) == IF s = <<>> THEN 0 ELSE Head(s) + Sum(Tail(s))

\* err?.message || "Failed to start recording. ..."
ErrText(msg) == IF msg = "" THEN FallbackError ELSE msg

\* a state setter of an unmounted component changes nothing
SetState(old, new) == IF mounted THEN new ELSE old

\* MediaRecorder.state as the script sees it
RecorderState(r) == IF r = "recording" THEN "recording" ELSE "inactive"

\* pickMimeType with the preference order reversed
PickMimeTypeLast(sup) ==
    IF \E i \in 1..Len(Candidates) : Candidates[i] \in sup
    THEN Candidates[CHOOSE i \in 1..Len(Candidates) :
                      /\ Candidates[i] \in sup
                      /\ \A j \in (i + 1)..Len(Candidates) : Candidates[j] \notin sup]
    ELSE ""

RECURSIVE Find(_, _)
\* cand.find((c) => MediaRecorder.isTypeSupported(c)), undefined as ""
Find(cand, sup) ==
    IF cand = <<>> THEN ""
    ELSE IF Head(cand) \in sup THEN Head(cand)
         ELSE Find(Tail(cand), sup)

\* lines 69-76: pickMimeType()
PickMimeType(sup) == Find(Candidates, sup)

\* mimeType || "video/webm"
BlobType(m) == IF m = "" THEN "video/webm" ELSE m

Init ==
    /\ mounted = TRUE
    /\ isSupported \in BOOLEAN
    /\ isRecording = FALSE
    /\ elapsedMs = 0
    /\ previewURL = NULL
    /\ error = ""
    /\ mediaRecorderRef = NULL
    /\ chunksRef = <<>>
    /\ displayStreamRef = NULL
    /\ micStreamRef = NULL
    /\ mixedStreamRef = NULL
    /\ audioCtxRef = NULL
    /\ tickRef = NULL
    /\ sinceStart = 0
    /\ intervals = {}
    /\ due = {}
    /\ wait = [a \in Attempts |-> 0]
    /\ late = [a \in Attempts |-> 0]
    /\ started = 0
    /\ limit = MaxAttempts
    /\ horizon = MaxTicks * TICK_MS
    /\ pc = [a \in Attempts |-> "unused"]
    /\ video = [a \in Attempts |-> "none"]
    /\ sysAudio = [a \in Attempts |-> "none"]
    /\ micTrack = [a \in Attempts |-> "none"]
    /\ mixedTrack = [a \in Attempts |-> "none"]
    /\ ctxState = [a \in Attempts |-> "none"]
    /\ rec = [a \in Attempts |-> "none"]
    /\ builds = [a \in Attempts |-> 0]
    /\ cleanups = [a \in Attempts |-> 0]
    /\ artifactSize = -1
    /\ revoked = {}
    /\ noop = "none"
    /\ downloaded = -1
    /\ downloadedType = "none"
    /\ supported \in SUBSET CandidateSet
    /\ connected = [a \in Attempts |-> {}]
    /\ mimeType = [a \in Attempts |-> ""]
    /\ artifactType = "none"

\* ---- helpers of the handlers --------------------------------------------
\* line 80: startRecording goes on only if this holds
StartAccepted == isSupported /\ ~isRecording

\* line 56: the tick that stops the recording
TimedOut(ms) == ms >= MAX_DURATION_MS

\* stopTracks(s) for the stream of attempt `ref` (NULL?.getTracks is skipped)
StopTracks(tracks, ref) ==
    [a \in Attempts |-> IF a = ref /\ tracks[a] = "live" THEN "ended" ELSE tracks[a]]

\* stopTimer(): clearInterval(tickRef.current), tickRef.current = null
StopTimer(dueNow) ==
    /\ tickRef' = NULL
    /\ intervals' = intervals \ {tickRef}
    /\ due' = dueNow \ {tickRef}
    /\ wait' = [a \in Attempts |-> IF a = tickRef THEN 0 ELSE wait[a]]
    /\ late' = [a \in Attempts |-> IF a \in dueNow \ {tickRef} THEN late[a] ELSE 0]

\* cleanupStreams() without lines 153, 155, 157 and 160: the refs are kept
CleanupStreamsKeepsRefs(v, s, m, x, c, dRef, mRef, xRef, cRef) ==
    /\ video' = StopTracks(StopTracks(v, dRef), xRef)
    /\ sysAudio' = StopTracks(s, dRef)
    /\ micTrack' = StopTracks(m, mRef)
    /\ mixedTrack' = StopTracks(x, xRef)
    /\ ctxState' = [a \in Attempts |->
                      IF a = cRef /\ c[a] = "running" THEN "closed" ELSE c[a]]
    /\ UNCHANGED <<displayStreamRef, micStreamRef, mixedStreamRef, audioCtxRef>>

\* cleanupStreams() on the given refs; v, s, m, x, c are the host objects as
\* the caller leaves them.  The combined stream holds the display stream's
\* video track and the mixer destination's audio track.
CleanupStreams(v, s, m, x, c, dRef, mRef, xRef, cRef) ==
    /\ video' = StopTracks(StopTracks(v, dRef), xRef)
    /\ sysAudio' = StopTracks(s, dRef)
    /\ micTrack' = StopTracks(m, mRef)
    /\ mixedTrack' = StopTracks(x, xRef)
    /\ ctxState' = [a \in Attempts |->
                      IF a = cRef /\ c[a] = "running" THEN "closed" ELSE c[a]]
    /\ displayStreamRef' = NULL
    /\ micStreamRef' = NULL
    /\ mixedStreamRef' = NULL
    /\ audioCtxRef' = NULL

\* lines 165-169 with an encoder that takes stop() in any state
StopEncoderAgain(r) ==
    IF mediaRecorderRef # NULL
    THEN [r EXCEPT ![mediaRecorderRef] = "flushing"]
    ELSE r

\* lines 165-169: stop the encoder in the ref unless it is inactive
StopEncoder(r) ==
    IF mediaRecorderRef # NULL /\ RecorderState(r[mediaRecorderRef]) # "inactive"
    THEN [r EXCEPT ![mediaRecorderRef] = "flushing"]
    ELSE r

\* stopRecording()
StopRecording(dueNow) ==
    /\ rec' = StopEncoder(rec)
    /\ StopTimer(dueNow)
    /\ noop' = IF mediaRecorderRef # NULL
                   /\ RecorderState(rec[mediaRecorderRef]) = "inactive"
                THEN "stop"
                ELSE "none"
    /\ downloaded' = -1
    /\ downloadedType' = "none"
    /\ limit' = limit
    /\ horizon' = horizon
    /\ supported' = supported

\* the catch block of startRecording, lines 140-146
Catch(a, msg, v, s, m, x, c, dRef, mRef, xRef, cRef) ==
    /\ pc' = [pc EXCEPT ![a] = "failed"]
    /\ error' = SetState(error, ErrText(msg))
    /\ CleanupStreams(v, s, m, x, c, dRef, mRef, xRef, cRef)
    /\ StopTimer(due)
    /\ isRecording' = SetState(isRecording, FALSE)

\* ---- the controls as rendered ------------------------------------------
\* line 203: disabled={!isSupported || isRecording}
StartDisabled == ~isSupported \/ isRecording

\* line 206: disabled={!isRecording}
StopDisabled == ~isRecording

\* lines 218-225: the preview and its Download button are rendered
DownloadShown == previewURL # NULL

\* ---- startRecording -----------------------------------------------------
\* lines 78-88: the handler up to its first await
StartRecording ==
    /\ mounted
    /\ error' = ""
    /\ IF StartAccepted
       THEN /\ started < limit
            /\ started' = started + 1
            /\ pc' = [pc EXCEPT ![started + 1] = "display"]
            /\ revoked' = IF previewURL # NULL THEN revoked \cup {previewURL} ELSE revoked
            /\ previewURL' = NULL
            /\ noop' = "none"
       ELSE /\ noop' = "start"
            /\ UNCHANGED <<started, pc, revoked, previewURL>>
    /\ downloaded' = -1
    /\ downloadedType' = "none"
    /\ limit' = limit
    /\ horizon' = horizon
    /\ supported' = supported
    /\ UNCHANGED <<mounted, isSupported, isRecording, elapsedMs, refVars, timeVars,
                   hostVars, histVars>>
    /\ UNCHANGED formatVars

\* line 88: getDisplayMedia resolves
DisplayGranted(a) ==
    /\ pc[a] = "display"
    /\ pc' = [pc EXCEPT ![a] = "mic"]
    /\ video' = [video EXCEPT ![a] = "live"]
    /\ sysAudio' = [sysAudio EXCEPT ![a] = "live"]
    /\ Quiet
    /\ UNCHANGED <<uiVars, refVars, timeVars, started, micTrack, mixedTrack, ctxState,
                   rec, histVars, revoked>>
    /\ UNCHANGED formatVars

\* line 88: getDisplayMedia rejects
DisplayDenied(a, msg) ==
    /\ pc[a] = "display"
    /\ Catch(a, msg, video, sysAudio, micTrack, mixedTrack, ctxState,
             displayStreamRef, micStreamRef, mixedStreamRef, audioCtxRef)
    /\ Quiet
    /\ UNCHANGED <<mounted, isSupported, elapsedMs, previewURL, mediaRecorderRef,
                   chunksRef, sinceStart, started, rec, histVars, revoked>>
    /\ UNCHANGED formatVars

\* line 93: getUserMedia rejects
MicDenied(a, msg) ==
    /\ pc[a] = "mic"
    /\ Catch(a, msg, video, sysAudio, micTrack, mixedTrack, ctxState,
             displayStreamRef, micStreamRef, mixedStreamRef, audioCtxRef)
    /\ Quiet
    /\ UNCHANGED <<mounted, isSupported, elapsedMs, previewURL, mediaRecorderRef,
                   chunksRef, sinceStart, started, rec, histVars, revoked>>
    /\ UNCHANGED formatVars

\* lines 93-139 run to the end: recorder.start(), setIsRecording(true), startTimer()
MicGrantedStarted(a) ==
    /\ pc[a] = "mic"
    /\ pc' = [pc EXCEPT ![a] = "started"]
    /\ micTrack' = [micTrack EXCEPT ![a] = "live"]
    /\ ctxState' = [ctxState EXCEPT ![a] = "running"]
    /\ mixedTrack' = [mixedTrack EXCEPT ![a] = "live"]
    /\ chunksRef' = FreshChunks
    /\ mediaRecorderRef' = a
    /\ displayStreamRef' = a
    /\ micStreamRef' = a
    /\ mixedStreamRef' = a
    /\ audioCtxRef' = a
    /\ rec' = [rec EXCEPT ![a] = "recording"]
    /\ isRecording' = SetState(isRecording, TRUE)
    /\ sinceStart' = 0
    /\ elapsedMs' = SetState(elapsedMs, 0)
    /\ tickRef' = a
    /\ intervals' = intervals \cup {a}
    /\ wait' = [wait EXCEPT ![a] = TICK_MS]
    /\ Quiet
    /\ UNCHANGED <<mounted, isSupported, previewURL, error, due, late, started,
                   video, sysAudio, histVars, revoked>>
    /\ connected' = [connected EXCEPT ![a] = MixerInputs]
    /\ mimeType' = [mimeType EXCEPT ![a] = PickMimeType(supported)]
    /\ UNCHANGED artifactType

\* lines 93-108 throw before the refs are set: new AudioContext ("ctx"), the
\* mixer nodes ("mixer") or new MediaRecorder ("recorder")
MicGrantedThrowsEarly(a, stage, msg) ==
    /\ pc[a] = "mic"
    /\ stage \in EarlyStages
    /\ Catch(a, msg, video, sysAudio,
             [micTrack EXCEPT ![a] = "live"],
             IF stage = "recorder" THEN [mixedTrack EXCEPT ![a] = "live"] ELSE mixedTrack,
             IF stage = "ctx" THEN ctxState ELSE [ctxState EXCEPT ![a] = "running"],
             displayStreamRef, micStreamRef, mixedStreamRef, audioCtxRef)
    /\ Quiet
    /\ UNCHANGED <<mounted, isSupported, elapsedMs, previewURL, mediaRecorderRef,
                   chunksRef, sinceStart, started, rec, histVars, revoked>>
    /\ IF stage = "recorder"
       THEN /\ connected' = [connected EXCEPT ![a] = MixerInputs]
            /\ mimeType' = [mimeType EXCEPT ![a] = PickMimeType(supported)]
       ELSE UNCHANGED <<connected, mimeType>>
    /\ UNCHANGED artifactType

\* line 137 throws: recorder.start() fails after lines 110 and 131-135 ran
MicGrantedThrowsAtStart(a, msg) ==
    /\ pc[a] = "mic"
    /\ chunksRef' = FreshChunks
    /\ mediaRecorderRef' = a
    /\ rec' = [rec EXCEPT ![a] = "inactive"]
    /\ Catch(a, msg, video, sysAudio,
             [micTrack EXCEPT ![a] = "live"],
             [mixedTrack EXCEPT ![a] = "live"],
             [ctxState EXCEPT ![a] = "running"],
             a, a, a, a)
    /\ Quiet
    /\ UNCHANGED <<mounted, isSupported, elapsedMs, previewURL, sinceStart, started,
                   histVars, revoked>>
    /\ connected' = [connected EXCEPT ![a] = MixerInputs]
    /\ mimeType' = [mimeType EXCEPT ![a] = PickMimeType(supported)]
    /\ UNCHANGED artifactType

\* ---- the encoder and the capture device ---------------------------------
\* lines 111-113: recorder.ondataavailable of attempt a, with a Blob of `size`
DataAvailable(a, size) ==
    /\ rec[a] \in {"recording", "flushing"}
    /\ Len(chunksRef) < MaxSegments
    /\ chunksRef' = IF size > 0 THEN Append(chunksRef, size) ELSE chunksRef
    /\ Quiet
    /\ UNCHANGED <<uiVars, mediaRecorderRef, displayStreamRef, micStreamRef,
                   mixedStreamRef, audioCtxRef, tickRef, timeVars, started, pc,
                   hostVars, histVars, revoked>>
    /\ UNCHANGED formatVars

\* lines 115-122: recorder.onstop of attempt a
OnStop(a) ==
    /\ rec[a] = "flushing"
    /\ rec' = [rec EXCEPT ![a] = "stopped"]
    /\ StopTimer(due)
    /\ builds' = [builds EXCEPT ![a] = @ + 1]
    /\ artifactSize' = Sum(chunksRef)
    /\ previewURL' = SetState(previewURL, a)
    /\ isRecording' = SetState(isRecording, FALSE)
    /\ CleanupStreams(video, sysAudio, micTrack, mixedTrack, ctxState,
                      displayStreamRef, micStreamRef, mixedStreamRef, audioCtxRef)
    /\ cleanups' = [cleanups EXCEPT ![a] = @ + 1]
    /\ Quiet
    /\ UNCHANGED <<mounted, isSupported, elapsedMs, error, mediaRecorderRef, chunksRef,
                   sinceStart, started, pc, revoked>>
    /\ artifactType' = BlobType(mimeType[a])
    /\ UNCHANGED <<connected, mimeType>>

\* lines 124-129: the display's video track ends on its own; the "ended"
\* listener exists once line 126 has run
DeviceEnded(a) ==
    /\ video[a] = "live"
    /\ video' = [video EXCEPT ![a] = "ended"]
    /\ IF pc[a] = "started"
       THEN StopRecording(due)
       ELSE Quiet /\ UNCHANGED <<rec, tickRef, intervals, due, wait, late>>
    /\ UNCHANGED <<uiVars, mediaRecorderRef, chunksRef, displayStreamRef, micStreamRef,
                   mixedStreamRef, audioCtxRef, sinceStart, started, pc, sysAudio,
                   micTrack, mixedTrack, ctxState, histVars, revoked>>
    /\ UNCHANGED formatVars

\* the host stops an encoder all of whose tracks have ended
EncoderTracksEnded(a) ==
    /\ rec[a] = "recording"
    /\ video[a] # "live"
    /\ mixedTrack[a] # "live"
    /\ rec' = [rec EXCEPT ![a] = "flushing"]
    /\ Quiet
    /\ UNCHANGED <<uiVars, refVars, timeVars, started, pc, video, sysAudio, micTrack,
                   mixedTrack, ctxState, histVars, revoked>>
    /\ UNCHANGED formatVars

\* ---- the timer ----------------------------------------------------------
\* an interval w ms before the end of its period, d ms later: the periods
\* follow one another whether or not the callback has run
WaitAfter(w, d) == IF w > d THEN w - d ELSE TICK_MS - ((d - w) % TICK_MS)

\* d ms pass: an interval whose period ends within them queues its callback,
\* once, however long the host takes to run it
AdvanceTime(d) ==
    /\ intervals # {}
    /\ sinceStart < horizon
    /\ d > 0
    /\ \A i \in due : late[i] + d <= MaxLatePeriods * TICK_MS
    /\ sinceStart' = sinceStart + d
    /\ due' = due \cup {i \in intervals : wait[i] <= d}
    /\ wait' = [i \in Attempts |->
                  IF i \notin intervals THEN wait[i] ELSE WaitAfter(wait[i], d)]
    /\ late' = [i \in Attempts |->
                  IF i \in due THEN late[i] + d
                  ELSE IF i \in intervals /\ wait[i] <= d THEN d - wait[i]
                  ELSE 0]
    /\ Quiet
    /\ UNCHANGED <<uiVars, refVars, intervals, started, pc, hostVars, histVars,
                   revoked>>
    /\ UNCHANGED formatVars

\* time passes; a callback that is queued runs before or after, as the host
\* gets to it
TimePasses == \E d \in Offsets : AdvanceTime(d)

\* lines 52-59: the callback of interval i
Tick(i) ==
    /\ i \in due
    /\ elapsedMs' = SetState(elapsedMs, sinceStart)
    /\ IF TimedOut(sinceStart)
       THEN StopRecording(due \ {i})
       ELSE /\ due' = due \ {i}
            /\ late' = [late EXCEPT ![i] = 0]
            /\ Quiet
            /\ UNCHANGED <<rec, tickRef, intervals, wait>>
    /\ UNCHANGED <<mounted, isSupported, isRecording, previewURL, error,
                   mediaRecorderRef, chunksRef, displayStreamRef, micStreamRef,
                   mixedStreamRef, audioCtxRef, sinceStart, started, pc, video,
                   sysAudio, micTrack, mixedTrack, ctxState, histVars, revoked>>
    /\ UNCHANGED formatVars

\* ---- the user and the component's life ----------------------------------
\* lines 203-205: a click on the Start control, which is live unless disabled
UserStart ==
    /\ ~StartDisabled
    /\ StartRecording

\* line 206: the Stop control
UserStop ==
    /\ mounted
    /\ ~StopDisabled
    /\ StopRecording(due)
    /\ UNCHANGED <<uiVars, mediaRecorderRef, chunksRef, displayStreamRef, micStreamRef,
                   mixedStreamRef, audioCtxRef, sinceStart, started, pc, video,
                   sysAudio, micTrack, mixedTrack, ctxState, histVars, revoked>>
    /\ UNCHANGED formatVars

\* lines 173-185: handleDownload
Download ==
    /\ mounted
    /\ DownloadShown
    /\ downloaded' = IF previewURL # NULL /\ Len(chunksRef) # 0
                     THEN Sum(chunksRef)
                     ELSE -1
    /\ downloadedType' = IF previewURL # NULL /\ Len(chunksRef) # 0
                         THEN BlobType(PickMimeType(supported))
                         ELSE "none"
    /\ noop' = "none"
    /\ UNCHANGED <<uiVars, refVars, timeVars, started, limit, horizon, pc, hostVars,
                   histVars, revoked, supported, formatVars>>

\* lines 35-40: the unmount effect; its closure holds the first render's
\* previewURL, which is ""
Unmount ==
    /\ mounted
    /\ mounted' = FALSE
    /\ StopRecording(due)
    /\ UNCHANGED <<isSupported, isRecording, elapsedMs, previewURL, error,
                   mediaRecorderRef, chunksRef, displayStreamRef, micStreamRef,
                   mixedStreamRef, audioCtxRef, sinceStart, started, pc, video,
                   sysAudio, micTrack, mixedTrack, ctxState, histVars, revoked>>
    /\ UNCHANGED formatVars

Next ==
    \/ UserStart
    \/ \E a \in Attempts : DisplayGranted(a)
    \/ \E a \in Attempts, msg \in Messages : DisplayDenied(a, msg)
    \/ \E a \in Attempts, msg \in Messages : MicDenied(a, msg)
    \/ \E a \in Attempts : MicGrantedStarted(a)
    \/ \E a \in Attempts, st \in EarlyStages, msg \in Messages :
          MicGrantedThrowsEarly(a, st, msg)
    \/ \E a \in Attempts, msg \in Messages : MicGrantedThrowsAtStart(a, msg)
    \/ \E a \in Attempts, size \in SegmentSizes : DataAvailable(a, size)
    \/ \E a \in Attempts : OnStop(a)
    \/ \E a \in Attempts : DeviceEnded(a)
    \/ \E a \in Attempts : EncoderTracksEnded(a)
    \/ TimePasses
    \/ \E i \in Attempts : Tick(i)
    \/ UserStop
    \/ Download
    \/ Unmount

Spec == Init /\ [][Next]_vars

\* ---- one more attempt, driven by the controls, the permission prompts,
\* ---- the encoder's stop callback and the timer alone --------------------
InitDeep ==
    /\ mounted = TRUE
    /\ isSupported = TRUE
    /\ isRecording = FALSE
    /\ elapsedMs = 0
    /\ previewURL = NULL
    /\ error = ""
    /\ mediaRecorderRef = NULL
    /\ chunksRef = <<>>
    /\ displayStreamRef = NULL
    /\ micStreamRef = NULL
    /\ mixedStreamRef = NULL
    /\ audioCtxRef = NULL
    /\ tickRef = NULL
    /\ sinceStart = 0
    /\ intervals = {}
    /\ due = {}
    /\ wait = [a \in Attempts |-> 0]
    /\ late = [a \in Attempts |-> 0]
    /\ started = 0
    /\ limit = DeepAttempts
    /\ horizon = MaxTicks * TICK_MS
    /\ pc = [a \in Attempts |-> "unused"]
    /\ video = [a \in Attempts |-> "none"]
    /\ sysAudio = [a \in Attempts |-> "none"]
    /\ micTrack = [a \in Attempts |-> "none"]
    /\ mixedTrack = [a \in Attempts |-> "none"]
    /\ ctxState = [a \in Attempts |-> "none"]
    /\ rec = [a \in Attempts |-> "none"]
    /\ builds = [a \in Attempts |-> 0]
    /\ cleanups = [a \in Attempts |-> 0]
    /\ artifactSize = -1
    /\ revoked = {}
    /\ noop = "none"
    /\ downloaded = -1
    /\ downloadedType = "none"
    /\ supported \in SUBSET CandidateSet
    /\ connected = [a \in Attempts |-> {}]
    /\ mimeType = [a \in Attempts |-> ""]
    /\ artifactType = "none"

NextDeep ==
    \/ UserStart
    \/ \E a \in Attempts : DisplayGranted(a)
    \/ \E a \in Attempts, msg \in Messages : DisplayDenied(a, msg)
    \/ \E a \in Attempts, msg \in Messages : MicDenied(a, msg)
    \/ \E a \in Attempts : MicGrantedStarted(a)
    \/ \E a \in Attempts : OnStop(a)
    \/ TimePasses
    \/ \E i \in Attempts : Tick(i)
    \/ UserStop

SpecDeep == InitDeep /\ [][NextDeep]_vars

\* ---- whole recordings: the clock is followed, step by step, up to the
\* ---- maximum duration and MaxOverrun periods beyond ----------------------
InitLong ==
    /\ mounted = TRUE
    /\ isSupported = TRUE
    /\ isRecording = FALSE
    /\ elapsedMs = 0
    /\ previewURL = NULL
    /\ error = ""
    /\ mediaRecorderRef = NULL
    /\ chunksRef = <<>>
    /\ displayStreamRef = NULL
    /\ micStreamRef = NULL
    /\ mixedStreamRef = NULL
    /\ audioCtxRef = NULL
    /\ tickRef = NULL
    /\ sinceStart = 0
    /\ intervals = {}
    /\ due = {}
    /\ wait = [a \in Attempts |-> 0]
    /\ late = [a \in Attempts |-> 0]
    /\ started = 0
    /\ limit = MaxAttempts
    /\ horizon = MAX_DURATION_MS + MaxOverrun * TICK_MS
    /\ pc = [a \in Attempts |-> "unused"]
    /\ video = [a \in Attempts |-> "none"]
    /\ sysAudio = [a \in Attempts |-> "none"]
    /\ micTrack = [a \in Attempts |-> "none"]
    /\ mixedTrack = [a \in Attempts |-> "none"]
    /\ ctxState = [a \in Attempts |-> "none"]
    /\ rec = [a \in Attempts |-> "none"]
    /\ builds = [a \in Attempts |-> 0]
    /\ cleanups = [a \in Attempts |-> 0]
    /\ artifactSize = -1
    /\ revoked = {}
    /\ noop = "none"
    /\ downloaded = -1
    /\ downloadedType = "none"
    /\ supported = CandidateSet
    /\ connected = [a \in Attempts |-> {}]
    /\ mimeType = [a \in Attempts |-> ""]
    /\ artifactType = "none"

NextLong ==
    \/ UserStart
    \/ \E a \in Attempts : DisplayGranted(a)
    \/ \E a \in Attempts : MicGrantedStarted(a)
    \/ \E a \in Attempts : OnStop(a)
    \/ \E a \in Attempts : DeviceEnded(a)
    \/ \E a \in Attempts : EncoderTracksEnded(a)
    \/ TimePasses
    \/ \E i \in Attempts : Tick(i)
    \/ UserStop

SpecLong == InitLong /\ [][NextLong]_vars

\* ---- cleanupStreams on its own -------------------------------------------
\* every combination of the four refs being set or null, over one attempt
\* whose objects are live, already stopped or closed, or were never created
InitCleanup ==
    /\ mounted = TRUE
    /\ isSupported = TRUE
    /\ isRecording = FALSE
    /\ elapsedMs = 0
    /\ previewURL = NULL
    /\ error = ""
    /\ mediaRecorderRef = NULL
    /\ chunksRef = <<>>
    /\ displayStreamRef \in {NULL, 1}
    /\ micStreamRef \in {NULL, 1}
    /\ mixedStreamRef \in {NULL, 1}
    /\ audioCtxRef \in {NULL, 1}
    /\ tickRef = NULL
    /\ sinceStart = 0
    /\ intervals = {}
    /\ due = {}
    /\ wait = [a \in Attempts |-> 0]
    /\ late = [a \in Attempts |-> 0]
    /\ started = 1
    /\ limit = 1
    /\ horizon = MaxTicks * TICK_MS
    /\ pc = [a \in Attempts |-> IF a = 1 THEN "mic" ELSE "unused"]
    /\ \E v, s, m, x \in {"none", "live", "ended"}, c \in {"none", "running", "closed"} :
          /\ (v = "none") <=> (s = "none")
          /\ displayStreamRef = 1 => v # "none"
          /\ micStreamRef = 1 => m # "none"
          /\ mixedStreamRef = 1 => x # "none" /\ v # "none"
          /\ audioCtxRef = 1 => c # "none"
          /\ video = [a \in Attempts |-> IF a = 1 THEN v ELSE "none"]
          /\ sysAudio = [a \in Attempts |-> IF a = 1 THEN s ELSE "none"]
          /\ micTrack = [a \in Attempts |-> IF a = 1 THEN m ELSE "none"]
          /\ mixedTrack = [a \in Attempts |-> IF a = 1 THEN x ELSE "none"]
          /\ ctxState = [a \in Attempts |-> IF a = 1 THEN c ELSE "none"]
    /\ rec = [a \in Attempts |-> "none"]
    /\ builds = [a \in Attempts |-> 0]
    /\ cleanups = [a \in Attempts |-> 0]
    /\ artifactSize = -1
    /\ revoked = {}
    /\ noop = "none"
    /\ downloaded = -1
    /\ downloadedType = "none"
    /\ supported = CandidateSet
    /\ connected = [a \in Attempts |-> {}]
    /\ mimeType = [a \in Attempts |-> ""]
    /\ artifactType = "none"

\* lines 149-162: one call of cleanupStreams(); noop counts consecutive calls
CleanupCall ==
    /\ CleanupStreams(video, sysAudio, micTrack, mixedTrack, ctxState,
                      displayStreamRef, micStreamRef, mixedStreamRef, audioCtxRef)
    /\ noop' = IF noop = "none" THEN "cleanup" ELSE "cleanup again"
    /\ downloaded' = -1
    /\ downloadedType' = "none"
    /\ UNCHANGED <<uiVars, mediaRecorderRef, chunksRef, tickRef, timeVars, started,
                   limit, horizon, pc, rec, histVars, revoked, supported, formatVars>>

NextCleanup == CleanupCall

SpecCleanup == InitCleanup /\ [][NextCleanup]_vars

\* ---- the claims ---------------------------------------------------------
\* an attempt is active while its startRecording call is suspended on an
\* acquisition or its encoder has not yet run its stop callback
Active(a) == pc[a] \in {"display", "mic"} \/ rec[a] \in {"recording", "flushing"}

\* the tracks and the audio graph attempt a acquired are all released
Released(a) ==
    /\ video[a] # "live"
    /\ sysAudio[a] # "live"
    /\ micTrack[a] # "live"
    /\ mixedTrack[a] # "live"
    /\ ctxState[a] # "running"

C2_OneActiveAttempt ==
    /\ Cardinality({a \in Attempts : Active(a)}) <= 1
    /\ Cardinality({a \in Attempts : ~Released(a)}) <= 1

\* C3: once the failure handler of an attempt has run, no track acquired in
\* that attempt is live and no audio graph created in it is open.
C3_FailedHoldsNothing ==
    \A a \in Attempts : pc[a] = "failed" => Released(a)

\* C4: after the failure handler of an attempt the error message is non-empty,
\* isRecording is false, no timer is ticking and Start is enabled again.
C4_FailureRestartable ==
    [][\A a \in Attempts :
          (mounted /\ pc[a] \in {"display", "mic"} /\ pc'[a] = "failed")
          => /\ error' # ""
             /\ ~isRecording'
             /\ tickRef' = NULL
             /\ intervals' = {}
             /\ isSupported' /\ ~isRecording']_vars

\* C5: a click on Start while an encoder is recording changes neither the
\* session state, elapsedMs, the timer, the segments, the preview handle nor
\* any held resource, and begins no attempt.
C5_StartWhileRecordingNoOp ==
    [][(UserStart /\ \E a \in Attempts : rec[a] = "recording")
       => UNCHANGED <<mounted, isSupported, isRecording, elapsedMs, previewURL,
                      refVars, timeVars, started, pc, hostVars, histVars,
                      revoked>>]_vars

\* The encoder of attempt a is recording and out of reach of every stop.
\* stopRecording, whoever calls it (Stop, the 'ended' listeners, the interval
\* callback at the maximum, the unmount effect), stops only the encoder in
\* mediaRecorderRef; the host stops an encoder by itself only when all its
\* tracks have ended, and the mixed audio track of a is ended by
\* cleanupStreams alone, through mixedStreamRef.  The refs are set to a once,
\* at lines 131-135 of a's own call, so once they name another attempt or
\* null they never name a again.
Stranded(a) ==
    /\ rec[a] = "recording"
    /\ mediaRecorderRef # a
    /\ mixedStreamRef # a
    /\ mixedTrack[a] = "live"

\* a stranded attempt stays stranded whatever happens next: it never comes
\* to its stop callback, however the timer and the callbacks are scheduled
StrandedForGood ==
    [][\A a \in Attempts : Stranded(a) => Stranded(a)']_vars

\* C6: every attempt that is recording comes to run its stop callback, by
\* the timer at the maximum duration if by nothing else; so at no time is a
\* recording attempt out of reach of every stop.
C6_RecordingCanComplete ==
    \A a \in Attempts : ~Stranded(a)

\* C7: in the step that stops an encoder, the elapsedMs the mounted component
\* publishes is at most the maximum duration plus one tick interval, also
\* when the host runs the interval callback after its period ended.
C7_ElapsedAtStopBounded ==
    [][\A a \in Attempts :
          (mounted' /\ rec[a] = "recording" /\ rec'[a] = "flushing")
          => elapsedMs' <= MAX_DURATION_MS + TICK_MS]_vars

\* C8: the stop callback of an attempt leaves every track of the attempt
\* stopped, its audio graph closed, the timer halted and every per-attempt
\* reference (streams, audio graph, encoder handle, timer handle) cleared.
C8_StopCallbackClearsAll ==
    [][\A a \in Attempts :
          (rec[a] = "flushing" /\ rec'[a] = "stopped")
          => /\ video'[a] # "live" /\ sysAudio'[a] # "live"
             /\ micTrack'[a] # "live" /\ mixedTrack'[a] # "live"
             /\ ctxState'[a] # "running"
             /\ tickRef' = NULL
             /\ displayStreamRef' = NULL /\ micStreamRef' = NULL
             /\ mixedStreamRef' = NULL /\ audioCtxRef' = NULL
             /\ mediaRecorderRef' = NULL]_vars

\* C9: no artifact is built from an empty segment sequence, and the Download
\* control (shown while previewURL is set) implies a non-empty sequence.
C9_DownloadNeedsSegments ==
    /\ artifactSize # 0
    /\ previewURL # NULL => Len(chunksRef) > 0

\* C10: while recording, the segment sequence only grows, by one non-empty
\* segment at a time; it holds no empty segment; the artifact built by the
\* stop callback is as long as the retained segments together.
C10_SegmentsAppendOnly ==
    [][/\ (isRecording /\ isRecording')
          => \/ chunksRef' = chunksRef
             \/ \E s \in SegmentSizes \ {0} : chunksRef' = Append(chunksRef, s)
       /\ \A i \in 1..Len(chunksRef') : chunksRef'[i] > 0
       /\ \A a \in Attempts :
             builds'[a] > builds[a] => artifactSize' = Sum(chunksRef')]_vars

\* C11: an attempt has an encoder, and so can be Recording, only after the
\* display stream, then the microphone stream, then both mixer connections,
\* then the combined stream exist: each stage implies every earlier one, and
\* no encoder exists with only one audio source connected.
C11_RecordingAfterSetup ==
    \A a \in Attempts :
        /\ micTrack[a] # "none" => video[a] # "none" /\ sysAudio[a] # "none"
        /\ ctxState[a] # "none" => micTrack[a] # "none"
        /\ connected[a] # {} => ctxState[a] # "none"
        /\ mixedTrack[a] # "none" => connected[a] = {"system", "mic"}
        /\ rec[a] # "none" => mixedTrack[a] # "none"
        /\ rec[a] # "none" => connected[a] = {"system", "mic"}
        /\ rec[a] # "none" => pc[a] \notin {"unused", "display", "mic"}

\* an attempt is recording with the system audio and the microphone mixed
C11_Witness ==
    \E a \in Attempts :
        /\ rec[a] = "recording"
        /\ isRecording
        /\ video[a] = "live"
        /\ micTrack[a] = "live"
        /\ connected[a] = {"system", "mic"}

\* the attempts whose preview URL was created and not yet revoked
Unrevoked == {a \in Attempts : builds[a] > 0} \ revoked

\* C12: at most one preview URL is unrevoked at any time, and after the
\* teardown no preview URL remains unrevoked.
C12_PreviewHandlesRevoked ==
    /\ Cardinality(Unrevoked) <= 1
    /\ ~mounted => Unrevoked = {}

\* some encoder is recording or delivering its last data
RecordingActive == \E a \in Attempts : rec[a] \in {"recording", "flushing"}

\* C13: while mounted, Start is disabled exactly when the probe failed or a
\* recording is active, Stop is disabled exactly when no recording is active,
\* and Download is shown only when a preview artifact has been built.
C13_ControlsMatchSession ==
    mounted =>
        /\ StartDisabled <=> (~isSupported \/ RecordingActive)
        /\ StopDisabled <=> ~RecordingActive
        /\ DownloadShown => builds[previewURL] >= 1 /\ previewURL \notin revoked

\* m is the most preferred supported candidate, or "" when none is supported
FirstSupported(m) ==
    \/ m = "" /\ \A i \in 1..3 : Candidates[i] \notin supported
    \/ \E i \in 1..3 : /\ m = Candidates[i]
                        /\ m \in supported
                        /\ \A j \in 1..(i - 1) : Candidates[j] \notin supported

\* C14: for every supported subset of the three candidates, the format an
\* encoder was created with is the first supported candidate in the order
\* vp9+opus, vp8+opus, plain webm, or none; the artifact built at stop has
\* that content type, or video/webm when none was selected; and the Blob
\* Download builds has the content type used at stop.
C14_FormatSelection ==
    /\ \A a \in Attempts : rec[a] # "none" => FirstSupported(mimeType[a])
    /\ \A a \in Attempts :
          (rec[a] = "stopped" /\ previewURL = a)
          => artifactType = IF mimeType[a] = "" THEN "video/webm" ELSE mimeType[a]
    /\ artifactType # "none"
       => IF supported = {} THEN artifactType = "video/webm"
          ELSE FirstSupported(artifactType)
    /\ downloadedType # "none" => downloadedType = artifactType

\* only the two less preferred formats are supported, a recording was
\* stopped and downloaded, both with the vp8 type
C14_Witness ==
    /\ supported = {"video/webm;codecs=vp8,opus", "video/webm"}
    /\ artifactType = "video/webm;codecs=vp8,opus"
    /\ downloadedType = "video/webm;codecs=vp8,opus"

C16_DeviceEndStopsRecording ==
    [][\A a \in Attempts :
          (DeviceEnded(a) /\ pc[a] = "started" /\ rec[a] = "recording")
          => rec'[a] = "flushing" /\ tickRef' = NULL /\ intervals' = {}]_vars

\* C17: from every combination of set and null refs, a call of
\* cleanupStreams can run, leaves all four refs null, no track of a referenced
\* stream live and no referenced audio graph running, also when that graph
\* was closed already, and touches nothing else; a second consecutive call
\* changes no state at all.
C17_CleanupIdempotent ==
    /\ []ENABLED CleanupCall
    /\ [][CleanupCall
          => /\ displayStreamRef' = NULL /\ micStreamRef' = NULL
             /\ mixedStreamRef' = NULL /\ audioCtxRef' = NULL
             /\ displayStreamRef # NULL
                => video'[displayStreamRef] = "ended"
                   /\ sysAudio'[displayStreamRef] = "ended"
             /\ micStreamRef # NULL => micTrack'[micStreamRef] = "ended"
             /\ mixedStreamRef # NULL
                => video'[mixedStreamRef] = "ended"
                   /\ mixedTrack'[mixedStreamRef] = "ended"
             /\ audioCtxRef # NULL => ctxState'[audioCtxRef] = "closed"
             /\ UNCHANGED <<uiVars, mediaRecorderRef, chunksRef, tickRef,
                            timeVars, pc, rec, histVars, revoked>>
             /\ noop # "none" => UNCHANGED <<refVars, hostVars>>]_vars

\* cleanupStreams ran twice in a row from a state in which only some refs
\* were set, and the tracks and the graph it released stay released
C17_Witness ==
    /\ noop = "cleanup again"
    /\ video[1] = "ended"
    /\ micTrack[1] = "live"
    /\ ctxState[1] = "closed"
    /\ audioCtxRef = NULL

\* C18: while mounted, the interval in tickRef is set only if the encoder in
\* mediaRecorderRef is recording and isRecording holds, and no interval other
\* than the one in tickRef is running, that is, no handle was overwritten
\* while its interval was active.
C18_TimerOnlyWhileRecording ==
    mounted =>
        /\ tickRef # NULL
           => /\ mediaRecorderRef # NULL
              /\ rec[mediaRecorderRef] = "recording"
              /\ isRecording
        /\ intervals \subseteq {tickRef}

\* mediaRecorderRef holds no encoder, or one that is inactive
NoEncoderActive ==
    mediaRecorderRef = NULL \/ RecorderState(rec[mediaRecorderRef]) = "inactive"

\* C19: stopRecording invoked from the Stop handler or the unmount effect
\* while mediaRecorderRef holds no active encoder leaves isRecording,
\* elapsedMs, the segments, the preview URL, the error, the resource refs and
\* the resources themselves unchanged, queues no further stop callback and so
\* causes no further artifact build or cleanup.
C19_StopWithoutEncoderNoOp ==
    [][((UserStop \/ Unmount) /\ NoEncoderActive)
       => UNCHANGED <<isSupported, isRecording, elapsedMs, previewURL, error,
                      mediaRecorderRef, chunksRef, displayStreamRef,
                      micStreamRef, mixedStreamRef, audioCtxRef, sinceStart,
                      started, pc, hostVars, histVars, revoked,
                      formatVars>>]_vars

\* the unmount effect invoked stop in Stopped(Preview): the encoder in the
\* ref has completed and its preview was shown
C19_Witness ==
    /\ ~mounted
    /\ noop = "stop"
    /\ ~isRecording
    /\ mediaRecorderRef # NULL
    /\ previewURL = mediaRecorderRef
    /\ rec[mediaRecorderRef] = "stopped"
    /\ Len(chunksRef) > 0

\* C20: the unmount of the component while an attempt is recording requests
\* stop on that attempt's encoder and leaves no interval running, so that the
\* stop callback can release the attempt's tracks and audio graph.
C20_TeardownStopsRecording ==
    [][\A a \in Attempts :
          (mounted /\ ~mounted' /\ rec[a] = "recording")
          => rec'[a] = "flushing" /\ tickRef' = NULL /\ intervals' = {}]_vars


====
